---- MODULE Spec2Model ----
(***************************************************************************)
(* Model of the Telegram file-custodian bot: the per-user session gate,    *)
(* the file ingestion pipeline, the command dispatcher and the deletion    *)
(* confirmation callbacks (src/internal/bot.go), over the SQLite user      *)
(* table and the MongoDB file collection (package db, kept in              *)
(* src/config/config.go lines 55-300).                                     *)
(*                                                                         *)
(* Every update is handled in its own goroutine (Bot.Start).  A goroutine  *)
(* is a slot of `procs`; one step of the model is one storage call (or the *)
(* file download) of one goroutine together with the platform sends that   *)
(* follow it up to the next such call, so the calls of different           *)
(* goroutines interleave freely.  A storage call either succeeds or        *)
(* returns an error.                                                       *)
(*                                                                         *)
(* Reply texts are the Russian texts of the source rendered in English;    *)
(* two texts are equal here exactly when they are equal in the source.     *)
(***************************************************************************)
EXTENDS Integers, Sequences, FiniteSets, TLC

\* ------------------------------------------------------------------ bounds

\* goroutines that can be alive at the same time
MaxProcs == 2
\* updates delivered by the platform in one run of the process
MaxUpdates == 2
\* updates delivered in one run when they come from one chat, one by one
MaxPromptUpdates == 4

Procs == 1..MaxProcs

\* ------------------------------------------------------- program constants

\* const maxFileSize = 100 * 1024 * 1024
maxFileSize == 104857600

\* ------------------------------------------------------------- reply texts

MsgPhoneRequest == "Please share your phone number."
MsgPhoneSaved == "Thank you! Your phone number is saved."
MsgReceivedAdmin == "Your message is received. Your status: administrator"
MsgReceivedUser == "Your message is received. Your status: ordinary user"
MsgGetFileError == "Error getting the file."
MsgTooBig == "Sorry, the file is too big. Maximum file size is 100 MB."
MsgLoading == "The file is being loaded into the database, please wait..."
MsgDownloadError == "Error downloading the file."
MsgReadError == "Error reading the file."
MsgDuplicate == "This file was already uploaded earlier."
MsgSaveError == "Error saving the file."
MsgSaved == "File saved successfully."
MsgHelp == "Welcome! I am a bot for storing and managing files."
MsgListError == "Error getting the list of files."
MsgAccessCheckError == "Error checking access rights."
MsgNoFiles == "You have no available files."
MsgFileList == "file list"
MsgShowUsage == "Please give the file ID. For example: /show 1"
MsgDeleteUsage == "Please give the file ID. For example: /delete 1"
MsgWait == "Wait for the file to load..."
MsgBadId == "Wrong file ID format."
MsgNotFound == "File not found."
MsgShowDenied == "You have no rights to access this file."
MsgDeleteDenied == "You have no rights to delete this file."
MsgConfirmDelete == "Are you sure you want to delete the file?"
MsgConfirmDeleteAll == "Are you sure you want to delete all your files? This cannot be undone."
MsgUnknownCommand == "Sorry, there is no such command. Use /start for the list of commands."
MsgDeleteAllError == "Error deleting the files."
MsgDeleteAllDone == "All files available to you are deleted."
MsgDeleteError == "Error deleting the file."
MsgDeleteDone == "File deleted."
MsgCancelAll == "Deletion of files cancelled."
MsgCancelOne == "Deletion of the file cancelled."
SendPhoto == "photo"
SendVideo == "video"
SendAudio == "audio"
SendDocument == "document"

\* no size is announced
NoSize == {}

\* no bytes
NoPayload == [body |-> "", len |-> 0]

\* a message sent to the chat: its text, the file id it names (0: none), the
\* file ids it lists, the callback data of its inline buttons, and the file
\* name, file type and bytes it carries
Reply(text) ==
    [text |-> text, id |-> 0, ids |-> {}, buttons |-> {},
     name |-> "", type |-> "", data |-> NoPayload]
ReplyId(text, id) == [Reply(text) EXCEPT !.id = id]
ReplyIds(text, ids) == [Reply(text) EXCEPT !.ids = ids]
ReplyButtons(text, buttons) == [Reply(text) EXCEPT !.buttons = buttons]
\* the success message of an upload: fmt.Sprintf(..., dbFile.ID,
\* dbFile.FileName, dbFile.FileType)
ReplySaved(text, file) ==
    [Reply(text) EXCEPT !.id = file.id, !.name = file.file_name, !.type = file.file_type]
\* a file sent back: tgbotapi.FileBytes{Name: file.FileName, Bytes: file.FileData}
ReplyFile(text, file) ==
    [Reply(text) EXCEPT !.id = file.id, !.name = file.file_name, !.data = file.file_data]

\* ------------------------------------------------------------------ users

UserIds == {101, 102}

\* message.From.UserName of each platform user
UserName(u) == IF u = 101 THEN "alice" ELSE "bob"

\* Config.Admins, the static administrator set
Admins == [n \in {"alice", "carol"} |-> n = "alice"]

\* Config.IsAdmin: a Go map lookup, false for an absent key
IsAdmin(username) == IF username \in DOMAIN Admins THEN Admins[username] ELSE FALSE

Phones == {"+100"}

\* models.User (first and last name are carried along unread and left out)
User(id, username, phone, is_admin) ==
    [id |-> id, username |-> username, phone |-> phone, is_admin |-> is_admin]

\* the user tables a previous run of the process can have left behind: no
\* rows, or a row for every user, with any phone and any flag
InitialUserTables ==
    { t \in UNION { [D -> [id : UserIds, username : {"alice", "bob"},
                           phone : Phones \cup {""}, is_admin : BOOLEAN]] :
                    D \in {{}, UserIds} } :
        \A u \in DOMAIN t : t[u].id = u /\ t[u].username = UserName(u) }

\* ------------------------------------------------------------------ files

\* models.File (created_at is written once and never read, left out);
\* file_data is the payload: a body and its length in bytes
File(id, user_id, file_name, file_type, file_data) ==
    [id |-> id, user_id |-> user_id, file_name |-> file_name,
     file_type |-> file_type, file_data |-> file_data]

Payloads == { [body |-> "p1", len |-> 10485760],
              [body |-> "p2", len |-> 157286400] }

\* the file collection a previous run can have left behind when every user
\* has completed onboarding: one file of each user
StoredBefore ==
    { File(1, 101, "a.txt", "text/plain", [body |-> "p1", len |-> 10485760]),
      File(2, 102, "voice.ogg", "audio/ogg", [body |-> "p1", len |-> 10485760]) }

RECURSIVE SetMax(_)
SetMax(S) == IF S = {} THEN 0
             ELSE LET x == CHOOSE y \in S : TRUE
                      m == SetMax(S \ {x})
                  IN IF x > m THEN x ELSE m

VARIABLES
    phase,      \* "startup" (NewBot running), "running" (Start), "exited"
    users,      \* the SQLite users table: id -> row
    files,      \* the MongoDB files collection: a set of documents
    procs,      \* the handler goroutines that are running
    updates,    \* number of updates delivered so far
    returned,   \* the handler run that returned in the step just taken, if any
    tx,         \* the SQLite transaction of UpdateAdminStatuses
    sheets,     \* Bot.SheetsService is not nil
    highest,    \* the greatest file id SaveFile has assigned so far
    prompts     \* the deletion prompts sent to the chats: file id -> prompt

vars == <<phase, users, files, procs, updates, returned, tx, sheets, highest, prompts>>


\* ------------------------------------------------------- package db: users

\* DB.GetUser: the row with this id, or nil (the empty set) when there is none
GetUser(tbl, id) == IF id \in DOMAIN tbl THEN {tbl[id]} ELSE {}

\* DB.SaveUser: INSERT ... ON CONFLICT(id) DO UPDATE, every column overwritten
SaveUser(tbl, user) ==
    [x \in DOMAIN tbl \cup {user.id} |-> IF x = user.id THEN user ELSE tbl[x]]

\* DB.UpdateUserPhone: UPDATE users SET phone = ? WHERE id = ?
UpdateUserPhone(tbl, id, phone) ==
    [x \in DOMAIN tbl |-> IF x = id THEN [tbl[x] EXCEPT !.phone = phone] ELSE tbl[x]]

\* variant: the statement that clears the flags changes nothing
KeepAdmins(tbl) == tbl

\* DB.UpdateAdminStatuses: UPDATE users SET is_admin = 0
ClearAdmins(tbl) == [x \in DOMAIN tbl |-> [tbl[x] EXCEPT !.is_admin = FALSE]]

\* DB.UpdateAdminStatuses: UPDATE users SET is_admin = 1 WHERE username = ?
SetAdmin(tbl, username) ==
    [x \in DOMAIN tbl |->
        IF tbl[x].username = username THEN [tbl[x] EXCEPT !.is_admin = TRUE] ELSE tbl[x]]

\* ------------------------------------------------------- package db: files

\* variant: the duplicate query also compares the payload
FindDuplicateByContent(coll, file) ==
    { f \in coll : /\ f.user_id = file.user_id
                   /\ f.file_name = file.file_name
                   /\ f.file_type = file.file_type
                   /\ f.file_data = file.file_data }

\* DB.SaveFile, first query: a document with the same owner, name and type
FindDuplicate(coll, file) ==
    { f \in coll : /\ f.user_id = file.user_id
                   /\ f.file_name = file.file_name
                   /\ f.file_type = file.file_type }

\* DB.SaveFile, second query: the _id of the document sorted last by _id,
\* the zero value when the collection is empty
LastFileId(coll) == SetMax({ f.id : f \in coll })

\* variant: the increment is two
NextFileIdSkip(lastId) == lastId + 2

\* variant: the last id is taken as it is
NextFileIdSame(lastId) == lastId

\* DB.SaveFile: file.ID = lastFile.ID + 1
NextFileId(lastId) == lastId + 1

\* variant: the insert replaces the document that has the _id
InsertNeverCollides(coll, file) == FALSE

\* InsertOne: _id is the collection's unique key
InsertCollides(coll, file) == \E f \in coll : f.id = file.id

\* DB.GetFile
GetFile(coll, id) == { f \in coll : f.id = id }

\* variant: the owner filter is missing
GetUserFilesUnfiltered(coll, userID) == coll

\* DB.GetUserFiles
GetUserFiles(coll, userID) == { f \in coll : f.user_id = userID }

\* DB.GetAllFiles
GetAllFiles(coll) == coll

\* variant: the delete removes every file of the owner of the file with this id
DeleteFileOfOwner(coll, id) ==
    { f \in coll : \A g \in coll : g.id = id => f.user_id # g.user_id }

\* DB.DeleteFile: DeleteOne by _id
DeleteFile(coll, id) == { f \in coll : f.id # id }

\* DB.DeleteUserFiles: every document of one owner
DeleteUserFiles(coll, userID) == { f \in coll : f.user_id # userID }

\* ------------------------------------------------------------- conversions

\* the file ids whose decimal strings the model uses
IdRange == 0..9

\* fmt.Sprintf("%d", n)
FormatId(n) == ToString(n)

\* strconv.ParseInt with the error dropped, and fmt.Sscanf("%d"): the number
\* a decimal string denotes; ok is false when the string is no number
ParseId(s) ==
    IF \E n \in IdRange : ToString(n) = s
    THEN [ok |-> TRUE, id |-> CHOOSE n \in IdRange : ToString(n) = s]
    ELSE [ok |-> FALSE, id |-> 0]

\* callback data is a prefix and the rest of the string
Data(prefix, rest) == [prefix |-> prefix, rest |-> rest]
ConfirmPrefix == "confirm_delete_"
CancelPrefix == "cancel_delete_"

\* fmt.Sprintf("confirm_delete_%d", fileID) and fmt.Sprintf("cancel_delete_%d", fileID)
ConfirmToken(fileID) == Data(ConfirmPrefix, FormatId(fileID))
CancelToken(fileID) == Data(CancelPrefix, FormatId(fileID))
ConfirmAllToken == Data(ConfirmPrefix, "all")
CancelAllToken == Data(CancelPrefix, "all")

\* variant: any deletion token matches (strings.Contains(data, "_delete_"))
HasDeleteMarker(data, prefix) == data.prefix \in {ConfirmPrefix, CancelPrefix}

\* strings.HasPrefix(callback.Data, prefix)
HasPrefix(data, prefix) == data.prefix = prefix

\* strings.HasSuffix(strings.ToLower(caption), ext) over the captions used
CaptionHasExt(caption, ext) ==
    \/ ext = ".heic" /\ caption \in {"x.heic", "X.HEIC"}
    \/ ext = ".mov" /\ caption \in {"x.mov", "X.MOV"}

\* strings.HasPrefix(file.FileType, major + "/") over the types used
TypeHasPrefix(type, major) ==
    \/ major = "image" /\ type \in {"image/jpeg", "image/heic"}
    \/ major = "video" /\ type \in {"video/mp4"}
    \/ major = "audio" /\ type \in {"audio/ogg", "audio/mpeg"}

\* --------------------------------------------------------------- updates

\* a tgbotapi.Message or a tgbotapi.CallbackQuery, by the fields the handlers read
Update(from, kind, phone, file_name, mime_type, caption, command, args, data) ==
    [from |-> from, kind |-> kind, phone |-> phone, file_name |-> file_name,
     mime_type |-> mime_type, caption |-> caption, command |-> command,
     args |-> args, data |-> data]

NoData == Data("", "")
NoUpdate == Update(0, "none", "", "", "", "", "", "", NoData)

TextMsg(u) == Update(u, "text", "", "", "", "", "", "", NoData)
ContactMsg(u, phone) == Update(u, "contact", phone, "", "", "", "", "", NoData)
DocumentMsg(u, name, type) == Update(u, "document", "", name, type, "", "", "", NoData)
MediaMsg(u, kind, name, caption) == Update(u, kind, "", name, "", caption, "", "", NoData)
CommandMsg(u, command, args) == Update(u, "command", "", "", "", "", command, args, NoData)
Callback(u, data) == Update(u, "callback", "", "", "", "", "", "", data)

MediaKinds == {"document", "photo", "voice", "audio", "video", "video_note"}

\* Bot.handleMessage, media branches: the file name and type handed to
\* handleFileUpload for a message that carries media
UploadTarget(m) ==
    CASE m.kind = "document" -> [name |-> m.file_name, type |-> m.mime_type]
      [] m.kind = "photo" ->
            IF CaptionHasExt(m.caption, ".heic")
            THEN [name |-> "photo.heic", type |-> "image/heic"]
            ELSE [name |-> "photo.jpg", type |-> "image/jpeg"]
      [] m.kind = "voice" -> [name |-> "voice.ogg", type |-> "audio/ogg"]
      [] m.kind = "audio" ->
            [name |-> IF m.file_name = "" THEN "audio.mp3" ELSE m.file_name,
             type |-> "audio/mpeg"]
      [] m.kind = "video" ->
            [name |-> IF m.file_name # "" THEN m.file_name
                      ELSE IF CaptionHasExt(m.caption, ".mov") THEN "video.mov"
                      ELSE "video.mp4",
             type |-> "video/mp4"]
      [] m.kind = "video_note" -> [name |-> "video_note.mp4", type |-> "video/mp4"]

\* the file ids that commands and callbacks name
TargetIds == {1}

ArgStrings == {"", "x"} \cup { FormatId(n) : n \in TargetIds }

\* the messages the platform delivers from user u
Messages(u) ==
    {TextMsg(u), DocumentMsg(u, "a.txt", "text/plain"), MediaMsg(u, "voice", "", "")}
    \cup { ContactMsg(u, ph) : ph \in Phones }
    \cup { CommandMsg(u, c, "") : c \in {"start", "list", "deleteall", "foo"} }
    \cup { CommandMsg(u, c, a) : c \in {"show", "delete"}, a \in ArgStrings }

\* the callback queries the platform delivers from user u
Callbacks(u) ==
    { Callback(u, Data(pre, rest)) :
        pre \in {ConfirmPrefix, CancelPrefix},
        rest \in {"all"} \cup { FormatId(n) : n \in TargetIds } }
    \cup {Callback(u, Data(ConfirmPrefix, "x"))}
    \cup {Callback(u, Data("noop_", ""))}


\* ------------------------------------------------------------ goroutines

\* a handler goroutine: where it is, the update it handles, its locals
\* (existingUser, file/files, dbFile: nil is the empty set; size: the
\* announced size that handleFileUpload compared with the ceiling), the
\* messages it has sent to the chat, the callback acknowledgements it has
\* made and the errors it has logged (log.Printf)
Proc(pc, msg, existingUser, file, dbFile, replies, acks, logs) ==
    [pc |-> pc, msg |-> msg, existingUser |-> existingUser, file |-> file,
     dbFile |-> dbFile, replies |-> replies, acks |-> acks, logs |-> logs,
     size |-> NoSize]

IdleProc == Proc("idle", NoUpdate, {}, {}, {}, <<>>, 0, <<>>)

TheOne(S) == CHOOSE x \in S : TRUE

LogGetUser == "Error getting user"
LogSaveUser == "Error saving user"
LogUpdatePhone == "Error updating phone"
LogGetFileInfo == "Error getting file info, trying alternative method"
LogDownload == "Error downloading file"
LogDownloadAlt == "Error downloading file via alternative method"
LogJson == "Received JSON response instead of file"
LogReadFile == "Error reading file"
LogSaveFile == "Error saving file"
LogGetUserFiles == "Error getting user files"
LogGetAllFiles == "Error getting all files"
LogGetFile == "Error getting file"
LogDeleteFiles == "Error deleting files"
LogDeleteFile == "Error deleting file"
LogSheetsError == "Error logging to Google Sheets"
LogSheetsDone == "File upload logged to Google Sheets"

\* log.Printf of an error
Log(self, line) == [self EXCEPT !.logs = Append(@, line)]

\* the goroutine, its locals now `self`, sends `rs` and moves to `pc`
Goto(p, self, pc, rs) ==
    /\ procs' = [procs EXCEPT ![p] = [self EXCEPT !.pc = pc, !.replies = self.replies \o rs]]
    /\ returned' = {}

\* the goroutine sends `rs` and returns; its slot is free again
Return(p, self, rs) ==
    /\ procs' = [procs EXCEPT ![p] = IdleProc]
    /\ returned' = {[self EXCEPT !.pc = "done", !.replies = self.replies \o rs]}

\* a nil pointer dereference in a goroutine ends the process
Panic(p, self) ==
    /\ procs' = [procs EXCEPT ![p] = IdleProc]
    /\ returned' = {}

\* no transaction is open
NoTx == [pc |-> "none", rows |-> <<>>, admins |-> <<>>, todo |-> {}]

Init ==
    /\ phase = "startup"
    /\ users \in InitialUserTables
    /\ files \in IF \A u \in UserIds : u \in DOMAIN users /\ users[u].phone # ""
                THEN {{}, StoredBefore} ELSE {{}}
    /\ procs = [p \in Procs |-> IdleProc]
    /\ updates = 0
    /\ returned = {}
    /\ tx = NoTx
    /\ sheets = FALSE
    /\ highest = LastFileId(files)
    /\ prompts = <<>>

\* NewBot: NewSheetsService; on an error the bot goes on without the sink
NewSheets ==
    /\ phase = "startup"
    /\ sheets' \in BOOLEAN
    /\ phase' = "verify"
    /\ returned' = {}
    /\ UNCHANGED <<users, files, procs, updates, tx, highest, prompts>>

\* NewBot: tgbotapi.NewBotAPI fails; NewBot returns the error and main exits
\* (log.Fatalf) before the audit sink and the reconciliation are touched
NewBotAPIFails ==
    /\ phase = "startup"
    /\ phase' = "exited"
    /\ returned' = {}
    /\ UNCHANGED <<users, files, procs, updates, tx, sheets, highest, prompts>>

\* variant: the error of verifyAdmins is only logged and Start runs anyway
RollbackAndStart ==
    /\ tx' = NoTx
    /\ users' = users
    /\ phase' = "running"

\* the transaction ends without a commit (an error return runs the deferred
\* tx.Rollback()); NewBot fails and main exits (log.Fatalf)
Rollback ==
    /\ tx' = NoTx
    /\ users' = users
    /\ phase' = "exited"

\* DB.UpdateAdminStatuses: tx, err := db.SQLite.Begin()
BeginTx(admins) ==
    /\ phase = "verify" /\ tx.pc = "none"
    /\ \E ok \in BOOLEAN :
        IF ok THEN /\ tx' = [pc |-> "clear", rows |-> users, admins |-> admins,
                             todo |-> DOMAIN admins]
                   /\ UNCHANGED <<users, phase>>
              ELSE Rollback
    /\ returned' = {}
    /\ UNCHANGED <<files, procs, updates, sheets, highest, prompts>>

\* variant: the clearing statement runs outside the transaction
\* (db.SQLite.Exec), so it is committed at once
ClearFlagsNoTx ==
    /\ phase = "verify" /\ tx.pc = "clear"
    /\ \E ok \in BOOLEAN :
        IF ok THEN /\ users' = ClearAdmins(users)
                   /\ tx' = [tx EXCEPT !.pc = "set", !.rows = ClearAdmins(users)]
                   /\ UNCHANGED phase
              ELSE Rollback
    /\ returned' = {}
    /\ UNCHANGED <<files, procs, updates, sheets, highest, prompts>>

\* DB.UpdateAdminStatuses: tx.Exec("UPDATE users SET is_admin = 0")
ClearFlags ==
    /\ phase = "verify" /\ tx.pc = "clear"
    /\ \E ok \in BOOLEAN :
        IF ok THEN /\ tx' = [tx EXCEPT !.pc = "set", !.rows = ClearAdmins(tx.rows)]
                   /\ UNCHANGED <<users, phase>>
              ELSE Rollback
    /\ returned' = {}
    /\ UNCHANGED <<files, procs, updates, sheets, highest, prompts>>

\* DB.UpdateAdminStatuses: one iteration of `for username, isAdmin := range
\* admins`, in the order the map yields its keys
SetFlag ==
    /\ phase = "verify" /\ tx.pc = "set"
    /\ \E username \in tx.todo : \E ok \in BOOLEAN :
        IF ~tx.admins[username]
        THEN /\ ok
             /\ tx' = [tx EXCEPT !.todo = @ \ {username}]
             /\ UNCHANGED <<users, phase>>
        ELSE IF ok
        THEN /\ tx' = [tx EXCEPT !.todo = @ \ {username},
                                 !.rows = SetAdmin(tx.rows, username)]
             /\ UNCHANGED <<users, phase>>
        ELSE Rollback
    /\ returned' = {}
    /\ UNCHANGED <<files, procs, updates, sheets, highest, prompts>>

\* DB.UpdateAdminStatuses: tx.Commit(); NewBot returns and Start runs
Commit ==
    /\ phase = "verify" /\ tx.pc = "set" /\ tx.todo = {}
    /\ \E ok \in BOOLEAN :
        IF ok THEN /\ users' = tx.rows
                   /\ tx' = [tx EXCEPT !.pc = "committed", !.rows = <<>>]
                   /\ phase' = "running"
              ELSE Rollback
    /\ returned' = {}
    /\ UNCHANGED <<files, procs, updates, sheets, highest, prompts>>

\* the process stops while the transaction is open: SQLite discards what
\* was not committed
StopBeforeCommit ==
    /\ phase = "verify" /\ tx.pc \in {"clear", "set"}
    /\ Rollback
    /\ returned' = {}
    /\ UNCHANGED <<files, procs, updates, sheets, highest, prompts>>

\* DB.UpdateAdminStatuses(admins)
UpdateAdminStatuses(admins) ==
    \/ BeginTx(admins)
    \/ ClearFlags
    \/ SetFlag
    \/ Commit

\* Bot.verifyAdmins: b.DB.UpdateAdminStatuses(b.Config.Admins)
VerifyAdmins == UpdateAdminStatuses(Admins)

CanSpawn(p) ==
    /\ phase = "running"
    /\ procs[p].pc = "idle"
    /\ updates < MaxUpdates

\* Bot.Start: go b.handleMessage(update.Message)
DispatchMessage(p) ==
    /\ CanSpawn(p)
    /\ \E u \in UserIds : \E m \in Messages(u) :
        procs' = [procs EXCEPT ![p] = Proc("gate", m, {}, {}, {}, <<>>, 0, <<>>)]
    /\ updates' = updates + 1
    /\ returned' = {}
    /\ UNCHANGED <<highest, prompts, tx, sheets, phase, users, files>>

\* Bot.Start: go b.handleCallback(update.CallbackQuery)
DispatchCallback(p) ==
    /\ CanSpawn(p)
    /\ \E u \in UserIds : \E c \in Callbacks(u) :
        procs' = [procs EXCEPT ![p] = Proc("callback", c, {}, {}, {}, <<>>, 0, <<>>)]
    /\ updates' = updates + 1
    /\ returned' = {}
    /\ UNCHANGED <<highest, prompts, tx, sheets, phase, users, files>>

\* Bot.Start, the platform delivering the update m, one of at most `max`: a
\* callback query goes to handleCallback, a message to handleMessage
Deliver(p, m, max) ==
    /\ phase = "running"
    /\ procs[p].pc = "idle"
    /\ updates < max
    /\ procs' = [procs EXCEPT ![p] =
                    Proc(IF m.kind = "callback" THEN "callback" ELSE "gate",
                         m, {}, {}, {}, <<>>, 0, <<>>)]
    /\ updates' = updates + 1
    /\ returned' = {}
    /\ UNCHANGED <<highest, prompts, tx, sheets, phase, users, files>>

\* goroutine p of the running process is about to make the call `pc`
At(p, pc) == phase = "running" /\ procs[p].pc = pc

\* ---------------------------------------------------------- session gate

\* requestPhoneNumber
PhonePrompt == <<Reply(MsgPhoneRequest)>>

\* variant: the row takes the phone of a contact the first message carries
NewUserWithContact(m) == User(m.from, UserName(m.from), m.phone, IsAdmin(UserName(m.from)))

\* variant: every new row is written as a non-administrator
NewUserNotAdmin(m) == User(m.from, UserName(m.from), "", FALSE)

\* Bot.handleMessage: user := &models.User{...}, built from the sender
NewUser(m) == User(m.from, UserName(m.from), "", IsAdmin(UserName(m.from)))

\* Bot.handleCommand up to its first storage call
RouteCommand(p, self, m) ==
    CASE m.command = "start" -> Return(p, self, <<Reply(MsgHelp)>>)
      [] m.command = "list" -> Goto(p, self, "list_files", <<>>)
      [] m.command = "show" ->
            IF m.args = "" THEN Return(p, self, <<Reply(MsgShowUsage)>>)
            ELSE IF ~ParseId(m.args).ok
                 THEN Return(p, self, <<Reply(MsgWait), Reply(MsgBadId)>>)
                 ELSE Goto(p, self, "show_file", <<Reply(MsgWait)>>)
      [] m.command = "delete" ->
            IF m.args = "" THEN Return(p, self, <<Reply(MsgDeleteUsage)>>)
            ELSE IF ~ParseId(m.args).ok
                 THEN Return(p, self, <<Reply(MsgBadId)>>)
                 ELSE Goto(p, self, "delete_file", <<>>)
      [] m.command = "deleteall" ->
            Return(p, self, <<ReplyButtons(MsgConfirmDeleteAll,
                                           {ConfirmAllToken, CancelAllToken})>>)
      [] OTHER -> Return(p, self, <<Reply(MsgUnknownCommand)>>)

\* Bot.handleMessage after the gate: media, then commands, then free text
RouteActive(p, self, m) ==
    IF m.kind \in MediaKinds THEN Goto(p, self, "fetch", <<>>)
    ELSE IF m.kind = "command" THEN RouteCommand(p, self, m)
    ELSE Goto(p, self, "process", <<>>)

\* variant: the empty-phone branch is missing
GateStateNoPhoneCheck(existingUser) ==
    IF existingUser = {} THEN "Unregistered" ELSE "Active"

\* the gate's three states, for what GetUser returned
GateState(existingUser) ==
    IF existingUser = {} THEN "Unregistered"
    ELSE IF TheOne(existingUser).phone = "" THEN "AwaitingPhone"
    ELSE "Active"

\* Bot.handleMessage: existingUser, err := b.DB.GetUser(user.ID) and the
\* branch on it; an error is logged and leaves existingUser nil
GateRead(p) ==
    /\ At(p, "gate")
    /\ \E ok \in BOOLEAN :
        LET m == procs[p].msg
            existing == IF ok THEN GetUser(users, m.from) ELSE {}
            read == IF ok THEN procs[p] ELSE Log(procs[p], LogGetUser)
            self == [read EXCEPT !.existingUser = existing]
        IN  CASE GateState(existing) = "Unregistered" -> Goto(p, self, "save_user", <<>>)
              [] GateState(existing) = "AwaitingPhone" ->
                    IF m.kind = "contact"
                    THEN Goto(p, self, "update_phone", <<>>)
                    ELSE Return(p, self, PhonePrompt)
              [] OTHER -> RouteActive(p, self, m)
    /\ UNCHANGED <<highest, prompts, tx, sheets, phase, users, files, updates>>

\* Bot.handleMessage, no stored user: SaveUser (an error is logged), then
\* the phone request
SaveNewUser(p) ==
    /\ At(p, "save_user")
    /\ \E ok \in BOOLEAN :
        IF ok THEN /\ users' = SaveUser(users, NewUser(procs[p].msg))
                   /\ Return(p, procs[p], PhonePrompt)
              ELSE /\ users' = users
                   /\ Return(p, Log(procs[p], LogSaveUser), PhonePrompt)
    /\ UNCHANGED <<highest, prompts, tx, sheets, phase, files, updates>>

\* Bot.handleMessage, empty phone and a contact: UpdateUserPhone (an error
\* is logged), then the confirmation
SavePhone(p) ==
    /\ At(p, "update_phone")
    /\ LET m == procs[p].msg
       IN  \E ok \in BOOLEAN :
            IF ok THEN /\ users' = UpdateUserPhone(users, m.from, m.phone)
                       /\ Return(p, procs[p], <<Reply(MsgPhoneSaved)>>)
                  ELSE /\ users' = users
                       /\ Return(p, Log(procs[p], LogUpdatePhone), <<Reply(MsgPhoneSaved)>>)
    /\ UNCHANGED <<highest, prompts, tx, sheets, phase, files, updates>>

\* Bot.processMessage: GetUser, then the status reply; on an error it
\* returns without a reply; a nil user is a nil dereference
ProcessMessage(p) ==
    /\ At(p, "process")
    /\ \E ok \in BOOLEAN :
        LET user == GetUser(users, procs[p].msg.from)
        IN  IF ~ok THEN Return(p, Log(procs[p], LogGetUser), <<>>) /\ phase' = phase
            ELSE IF user = {} THEN Panic(p, procs[p]) /\ phase' = "exited"
            ELSE /\ Return(p, procs[p],
                           <<Reply(IF TheOne(user).is_admin THEN MsgReceivedAdmin
                                                            ELSE MsgReceivedUser)>>)
                 /\ phase' = phase
    /\ UNCHANGED <<highest, prompts, tx, sheets, users, files, updates>>


\* ------------------------------------------------------ file ingestion

\* the sizes announced before a download: below the ceiling, the ceiling,
\* one byte more, and well above it
Sizes == {10485760, maxFileSize, maxFileSize + 1, 157286400}

\* what the platform and the network do for one upload: whether the primary
\* GetFile call succeeds, the size announced before the download (none, or
\* one number), whether http.Get succeeds, whether the fallback response is
\* JSON, whether reading the body succeeds, and the bytes read
Transports ==
    [getFile : BOOLEAN, size : {NoSize} \cup { {n} : n \in Sizes }, http : BOOLEAN,
     json : BOOLEAN, read : BOOLEAN, payload : Payloads]

\* fileData.FileSize: 0 when the platform announces no size
FileSize(t) == IF t.size = NoSize THEN 0 ELSE TheOne(t.size)

\* resp.ContentLength: -1 when the length is unknown
ContentLength(t) == IF t.size = NoSize THEN -1 ELSE TheOne(t.size)

\* the size handleFileUpload compares with the ceiling: fileData.FileSize on
\* the primary path; on the fallback path resp.ContentLength of a response
\* that is a file (http.Get succeeded and the content type is not JSON)
Announced(t) == IF t.getFile \/ (t.http /\ ~t.json) THEN t.size ELSE NoSize

\* variant: the ceiling itself is rejected
TooBigInclusive(size) == size >= maxFileSize

\* if fileData.FileSize > maxFileSize, if resp.ContentLength > maxFileSize
TooBig(size) == size > maxFileSize

Failed(replies, logs) == [got |-> FALSE, replies |-> replies, logs |-> logs]

\* variant: a failed GetFile ends the upload; no fallback fetch
DownloadNoFallback(t) ==
    IF ~t.getFile THEN Failed(<<Reply(MsgGetFileError)>>, <<LogGetFileInfo>>)
    ELSE IF TooBig(FileSize(t)) THEN Failed(<<Reply(MsgTooBig)>>, <<>>)
    ELSE IF ~t.http
    THEN Failed(<<Reply(MsgLoading), Reply(MsgDownloadError)>>, <<LogDownload>>)
    ELSE IF ~t.read
    THEN Failed(<<Reply(MsgLoading), Reply(MsgReadError)>>, <<LogReadFile>>)
    ELSE [got |-> TRUE, replies |-> <<Reply(MsgLoading)>>, logs |-> <<>>]

\* Bot.handleFileUpload up to SaveFile: the messages sent, the errors
\* logged, and whether the bytes are in hand
Download(t) ==
    IF t.getFile
    THEN \* primary path
         IF TooBig(FileSize(t))
         THEN Failed(<<Reply(MsgTooBig)>>, <<>>)
         ELSE IF ~t.http
         THEN Failed(<<Reply(MsgLoading), Reply(MsgDownloadError)>>, <<LogDownload>>)
         ELSE IF ~t.read
         THEN Failed(<<Reply(MsgLoading), Reply(MsgReadError)>>, <<LogReadFile>>)
         ELSE [got |-> TRUE, replies |-> <<Reply(MsgLoading)>>, logs |-> <<>>]
    ELSE \* fallback path
         IF ~t.http
         THEN Failed(<<Reply(MsgGetFileError)>>, <<LogGetFileInfo, LogDownloadAlt>>)
         ELSE IF t.json
         THEN Failed(<<Reply(MsgGetFileError)>>, <<LogGetFileInfo, LogJson>>)
         ELSE IF TooBig(ContentLength(t))
         THEN Failed(<<Reply(MsgTooBig)>>, <<LogGetFileInfo>>)
         ELSE IF ~t.read
         THEN Failed(<<Reply(MsgLoading), Reply(MsgReadError)>>,
                     <<LogGetFileInfo, LogReadFile>>)
         ELSE [got |-> TRUE, replies |-> <<Reply(MsgLoading)>>,
               logs |-> <<LogGetFileInfo>>]

\* Bot.handleFileUpload: the download, then dbFile := &models.File{...}
Fetch(p) ==
    /\ At(p, "fetch")
    /\ \E t \in Transports :
        LET m == procs[p].msg
            target == UploadTarget(m)
            dbFile == File(0, m.from, target.name, target.type, t.payload)
            d == Download(t)
            self == [procs[p] EXCEPT !.logs = @ \o d.logs, !.size = Announced(t)]
        IN  IF d.got
            THEN Goto(p, [self EXCEPT !.dbFile = {dbFile}], "save_dedup", d.replies)
            ELSE Return(p, self, d.replies)
    /\ UNCHANGED <<highest, prompts, tx, sheets, phase, users, files, updates>>

\* Bot.handleFileUpload: the reply to an error of SaveFile (the announced
\* size is not read any more once SaveFile is called, and is dropped)
SaveFailed(p, duplicate) ==
    LET self == [procs[p] EXCEPT !.size = NoSize]
    IN  IF duplicate THEN Return(p, self, <<Reply(MsgDuplicate)>>)
        ELSE Return(p, Log(self, LogSaveFile), <<Reply(MsgSaveError)>>)

\* DB.SaveFile: the duplicate query
SaveFileFindDuplicate(p) ==
    /\ At(p, "save_dedup")
    /\ \E ok \in BOOLEAN :
        IF ~ok THEN SaveFailed(p, FALSE)
        ELSE IF FindDuplicate(files, TheOne(procs[p].dbFile)) # {} THEN SaveFailed(p, TRUE)
        ELSE Goto(p, [procs[p] EXCEPT !.size = NoSize], "save_last", <<>>)
    /\ UNCHANGED <<highest, prompts, tx, sheets, phase, users, files, updates>>

\* DB.SaveFile: the last-id query and file.ID = lastFile.ID + 1
SaveFileNextId(p) ==
    /\ At(p, "save_last")
    /\ \E ok \in BOOLEAN :
        IF ~ok THEN SaveFailed(p, FALSE)
        ELSE LET dbFile == [TheOne(procs[p].dbFile) EXCEPT !.id = NextFileId(LastFileId(files))]
             IN  Goto(p, [procs[p] EXCEPT !.dbFile = {dbFile}], "save_insert", <<>>)
    /\ UNCHANGED <<highest, prompts, tx, sheets, phase, users, files, updates>>

\* Bot.handleFileUpload: b.SheetsService.LogFileUpload when the service is
\* there; its outcome is logged and nothing else
AuditLogs(present, logged) ==
    IF ~present THEN <<>>
    ELSE IF logged THEN <<LogSheetsDone>> ELSE <<LogSheetsError>>

\* variant: an error of LogFileUpload ends the upload with the save-error
\* notice
SaveFileInsertAuditChecked(p) ==
    /\ At(p, "save_insert")
    /\ LET dbFile == TheOne(procs[p].dbFile)
       IN  \E ok \in BOOLEAN :
            IF ~ok \/ InsertCollides(files, dbFile)
            THEN SaveFailed(p, FALSE) /\ files' = files /\ highest' = highest
            ELSE /\ files' = files \cup {dbFile}
                 /\ highest' = IF dbFile.id > highest THEN dbFile.id ELSE highest
                 /\ \E logged \in (IF sheets THEN BOOLEAN ELSE {FALSE}) :
                        Return(p, [procs[p] EXCEPT !.logs = @ \o AuditLogs(sheets, logged)],
                               IF sheets /\ ~logged THEN <<Reply(MsgSaveError)>>
                               ELSE <<ReplySaved(MsgSaved, dbFile)>>)
    /\ UNCHANGED <<prompts, tx, sheets, phase, users, updates>>

\* DB.SaveFile: InsertOne, and Bot.handleFileUpload: the audit line and the
\* success message
SaveFileInsert(p) ==
    /\ At(p, "save_insert")
    /\ LET dbFile == TheOne(procs[p].dbFile)
       IN  \E ok \in BOOLEAN :
            IF ~ok \/ InsertCollides(files, dbFile)
            THEN SaveFailed(p, FALSE) /\ files' = files /\ highest' = highest
            ELSE /\ files' = files \cup {dbFile}
                 /\ highest' = IF dbFile.id > highest THEN dbFile.id ELSE highest
                 /\ \E logged \in (IF sheets THEN BOOLEAN ELSE {FALSE}) :
                        Return(p, [procs[p] EXCEPT !.logs = @ \o AuditLogs(sheets, logged)],
                               <<ReplySaved(MsgSaved, dbFile)>>)
    /\ UNCHANGED <<prompts, tx, sheets, phase, users, updates>>

\* --------------------------------------------------- command dispatcher

\* "list": the message built from the files to show
ListReply(fs) ==
    IF fs = {} THEN <<Reply(MsgNoFiles)>>
    ELSE <<ReplyIds(MsgFileList, { f.id : f \in fs })>>

\* "list": files, err := b.DB.GetUserFiles(message.From.ID)
ListUserFiles(p) ==
    /\ At(p, "list_files")
    /\ \E ok \in BOOLEAN :
        IF ~ok THEN Return(p, Log(procs[p], LogGetUserFiles), <<Reply(MsgListError)>>)
        ELSE Goto(p, [procs[p] EXCEPT !.file = GetUserFiles(files, procs[p].msg.from)],
                  "list_user", <<>>)
    /\ UNCHANGED <<highest, prompts, tx, sheets, phase, users, files, updates>>

\* "list": user, err := b.DB.GetUser(message.From.ID); an administrator goes
\* on to GetAllFiles, anyone else gets the list of the files read so far
ListCheckUser(p) ==
    /\ At(p, "list_user")
    /\ \E ok \in BOOLEAN :
        LET user == GetUser(users, procs[p].msg.from)
        IN  IF ~ok THEN /\ Return(p, Log(procs[p], LogGetUser), <<Reply(MsgAccessCheckError)>>)
                        /\ phase' = phase
            ELSE IF user = {} THEN Panic(p, procs[p]) /\ phase' = "exited"
            ELSE /\ IF TheOne(user).is_admin
                    THEN Goto(p, procs[p], "list_all", <<>>)
                    ELSE Return(p, procs[p], ListReply(procs[p].file))
                 /\ phase' = phase
    /\ UNCHANGED <<highest, prompts, tx, sheets, users, files, updates>>

\* "list", administrator: allFiles, err := b.DB.GetAllFiles()
ListAllFiles(p) ==
    /\ At(p, "list_all")
    /\ \E ok \in BOOLEAN :
        IF ~ok THEN Return(p, Log(procs[p], LogGetAllFiles), <<Reply(MsgListError)>>)
        ELSE Return(p, [procs[p] EXCEPT !.file = GetAllFiles(files)],
                    ListReply(GetAllFiles(files)))
    /\ UNCHANGED <<highest, prompts, tx, sheets, phase, users, files, updates>>

\* "show" and "delete": file, err := b.DB.GetFile(fileID)
ReadFile(p, pc, next) ==
    /\ At(p, pc)
    /\ \E ok \in BOOLEAN :
        LET file == GetFile(files, ParseId(procs[p].msg.args).id)
        IN  IF ~ok THEN Return(p, Log(procs[p], LogGetFile), <<Reply(MsgGetFileError)>>)
            ELSE IF file = {} THEN Return(p, procs[p], <<Reply(MsgNotFound)>>)
            ELSE Goto(p, [procs[p] EXCEPT !.file = file], next, <<>>)
    /\ UNCHANGED <<highest, prompts, tx, sheets, phase, users, files, updates>>

ShowReadFile(p) == ReadFile(p, "show_file", "show_user")

DeleteReadFile(p) == ReadFile(p, "delete_file", "delete_user")

\* variant: the ownership check is missing
PermittedAnyone(user, file, from) == TRUE

\* variant: the administrator flag is not read
PermittedOwnerOnly(user, file, from) == file.user_id = from

\* variant: the owner of the file is not read
PermittedAdminOnly(user, file, from) == user.is_admin

\* "show" and "delete": if !user.IsAdmin && file.UserID != message.From.ID
Permitted(user, file, from) == user.is_admin \/ file.user_id = from

\* "show": the send chosen by the type's prefix
SendFile(file) ==
    ReplyFile(IF TypeHasPrefix(file.file_type, "image") THEN SendPhoto
            ELSE IF TypeHasPrefix(file.file_type, "video") THEN SendVideo
            ELSE IF TypeHasPrefix(file.file_type, "audio") THEN SendAudio
            ELSE SendDocument, file)

\* "delete": the two-button confirmation prompt
DeletePrompt(fileID) ==
    ReplyButtons(MsgConfirmDelete, {ConfirmToken(fileID), CancelToken(fileID)})

\* a deletion prompt in a chat: the file that had the id when the prompt was
\* sent, and whether a button of the prompt has been handled
\* ("Requested", then "Executed" or "Cancelled")
Issue(ps, id, file) ==
    [x \in DOMAIN ps \cup {id} |->
        IF x = id THEN [file |-> file, state |-> "Requested"] ELSE ps[x]]

\* the first choice made on a prompt resolves it
Resolve(ps, id, state) ==
    [x \in DOMAIN ps |->
        IF x = id /\ ps[x].state = "Requested" THEN [ps[x] EXCEPT !.state = state]
        ELSE ps[x]]

\* "show" and "delete": user, err := b.DB.GetUser(message.From.ID), the
\* permission check, and the reply `granted` when it passes (`sent`: the
\* prompts in the chats once that reply is sent)
CheckUser(p, pc, denied, granted, sent) ==
    /\ At(p, pc)
    /\ \E ok \in BOOLEAN :
        LET user == GetUser(users, procs[p].msg.from)
        IN  IF ~ok THEN /\ Return(p, Log(procs[p], LogGetUser), <<Reply(MsgAccessCheckError)>>)
                        /\ phase' = phase /\ prompts' = prompts
            ELSE IF user = {} THEN Panic(p, procs[p]) /\ phase' = "exited" /\ prompts' = prompts
            ELSE /\ IF Permitted(TheOne(user), TheOne(procs[p].file), procs[p].msg.from)
                    THEN Return(p, procs[p], <<granted>>) /\ prompts' = sent
                    ELSE Return(p, procs[p], <<Reply(denied)>>) /\ prompts' = prompts
                 /\ phase' = phase
    /\ UNCHANGED <<highest, tx, sheets, users, files, updates>>

ShowCheckUser(p) ==
    CheckUser(p, "show_user", MsgShowDenied, SendFile(TheOne(procs[p].file)), prompts)

DeleteCheckUser(p) ==
    CheckUser(p, "delete_user", MsgDeleteDenied,
              DeletePrompt(ParseId(procs[p].msg.args).id),
              Issue(prompts, ParseId(procs[p].msg.args).id, TheOne(procs[p].file)))

\* ------------------------------------------------ deletion confirmation

\* variant: "confirm_delete_all" and "cancel_delete_all" are not told apart
\* from the tokens that carry a file id
CallbackBranchNoAll(data) ==
    IF HasPrefix(data, ConfirmPrefix) THEN "confirm_one"
    ELSE IF HasPrefix(data, CancelPrefix) THEN "cancel_one"
    ELSE "none"

\* variant: a cancel token takes the confirm branch
CallbackBranchCancelConfirms(data) ==
    IF HasPrefix(data, ConfirmPrefix) \/ HasPrefix(data, CancelPrefix)
    THEN IF data.rest = "all" THEN "confirm_all" ELSE "confirm_one"
    ELSE "none"

\* Bot.handleCallback: the branch taken for the callback data
CallbackBranch(data) ==
    IF HasPrefix(data, ConfirmPrefix)
    THEN IF data = ConfirmAllToken THEN "confirm_all" ELSE "confirm_one"
    ELSE IF HasPrefix(data, CancelPrefix)
    THEN IF data = CancelAllToken THEN "cancel_all" ELSE "cancel_one"
    ELSE "none"

\* Bot.handleCallback: the error branches of the two deletes end in a
\* return; every other path runs to the acknowledgement at the end
ReturnsEarly(branch, ok) == branch \in {"confirm_all", "confirm_one"} /\ ~ok

\* variant: the success notice is sent whatever the delete returned
DeleteNoticeAlwaysDone(branch, ok) ==
    IF branch = "confirm_all" THEN MsgDeleteAllDone ELSE MsgDeleteDone

\* Bot.handleCallback: the notice after the delete, by what it returned
DeleteNotice(branch, ok) ==
    IF branch = "confirm_all"
    THEN IF ok THEN MsgDeleteAllDone ELSE MsgDeleteAllError
    ELSE IF ok THEN MsgDeleteDone ELSE MsgDeleteError

\* variant: the confirmed delete removes the file only when the callback's
\* sender owns it
ConfirmDeleteByOwner(coll, c) ==
    { f \in coll : f.id # ParseId(c.data.rest).id \/ f.user_id # c.from }

\* Bot.handleCallback, single file: fileID from the token (the parse error is
\* dropped), then b.DB.DeleteFile(fileID)
ConfirmDelete(coll, c) == DeleteFile(coll, ParseId(c.data.rest).id)

\* Bot.handleCallback, whole: at most one storage call, the notice, and
\* b.API.Request(tgbotapi.NewCallback(callback.ID, "")) unless it returned
\* before
HandleCallback(p) ==
    /\ At(p, "callback")
    /\ \E ok \in BOOLEAN :
        LET c == procs[p].msg
            branch == CallbackBranch(c.data)
            id == ParseId(c.data.rest).id
            Finish(self, rs) ==
                Return(p, [self EXCEPT !.acks = IF ReturnsEarly(branch, ok)
                                                THEN @ ELSE @ + 1], rs)
        IN  CASE branch = "confirm_all" ->
                    IF ok THEN /\ files' = DeleteUserFiles(files, c.from)
                               /\ prompts' = prompts
                               /\ Finish(procs[p], <<Reply(DeleteNotice(branch, ok))>>)
                          ELSE /\ files' = files
                               /\ prompts' = prompts
                               /\ Finish(Log(procs[p], LogDeleteFiles),
                                         <<Reply(DeleteNotice(branch, ok))>>)
              [] branch = "confirm_one" ->
                    IF ok THEN /\ files' = ConfirmDelete(files, c)
                               /\ prompts' = Resolve(prompts, id, "Executed")
                               /\ Finish(procs[p], <<Reply(DeleteNotice(branch, ok))>>)
                          ELSE /\ files' = files
                               /\ prompts' = prompts
                               /\ Finish(Log(procs[p], LogDeleteFile),
                                         <<Reply(DeleteNotice(branch, ok))>>)
              [] branch = "cancel_all" ->
                    /\ ok /\ files' = files /\ prompts' = prompts
                    /\ Finish(procs[p], <<Reply(MsgCancelAll)>>)
              [] branch = "cancel_one" ->
                    /\ ok /\ files' = files
                    /\ prompts' = Resolve(prompts, id, "Cancelled")
                    /\ Finish(procs[p], <<Reply(MsgCancelOne)>>)
              [] OTHER -> ok /\ files' = files /\ prompts' = prompts /\ Finish(procs[p], <<>>)
    /\ UNCHANGED <<highest, tx, sheets, phase, users, updates>>

\* ---------------------------------------------------------- the system

\* one step of the handler running in goroutine p
Handle(p) ==
    \/ GateRead(p)
    \/ SaveNewUser(p)
    \/ SavePhone(p)
    \/ ProcessMessage(p)
    \/ Fetch(p)
    \/ SaveFileFindDuplicate(p)
    \/ SaveFileNextId(p)
    \/ SaveFileInsert(p)
    \/ ListUserFiles(p)
    \/ ListCheckUser(p)
    \/ ListAllFiles(p)
    \/ ShowReadFile(p)
    \/ ShowCheckUser(p)
    \/ DeleteReadFile(p)
    \/ DeleteCheckUser(p)
    \/ HandleCallback(p)

Next ==
    \/ NewBotAPIFails
    \/ NewSheets
    \/ VerifyAdmins
    \/ StopBeforeCommit
    \/ \E p \in Procs : DispatchMessage(p) \/ DispatchCallback(p) \/ Handle(p)

\* every update is handled in a goroutine of its own, unsynchronized
Spec == Init /\ [][Next]_vars

\* no handler is running
Quiet == \A p \in Procs : procs[p].pc = "idle"

\* serialized handling: an update is dispatched only after the handler of
\* the one before it has returned
NextSerial ==
    \/ NewBotAPIFails
    \/ NewSheets
    \/ VerifyAdmins
    \/ StopBeforeCommit
    \/ \E p \in Procs :
        \/ Quiet /\ DispatchMessage(p)
        \/ Quiet /\ DispatchCallback(p)
        \/ Handle(p)

SpecSerial == Init /\ [][NextSerial]_vars

\* the administrator maps a configuration file can hold: any of three
\* usernames absent, mapped to true or mapped to false
AdminMaps == UNION { [D -> BOOLEAN] : D \in SUBSET {"alice", "bob", "carol"} }

\* the start of the process with any administrator map, up to the point
\* where Start would run
NextReconcile ==
    \/ NewBotAPIFails
    \/ NewSheets
    \/ \E admins \in AdminMaps : UpdateAdminStatuses(admins)
    \/ StopBeforeCommit

SpecReconcile == Init /\ [][NextReconcile]_vars

\* the start of the process over a table in which every user has a row and
\* the row of user 101 can hold the username the user had when the row was
\* written ("carol") instead of the one the user has now
InitGate ==
    /\ phase = "startup"
    /\ users \in { t \in [UserIds -> [id : UserIds, username : {"alice", "bob", "carol"},
                                      phone : Phones \cup {""}, is_admin : BOOLEAN]] :
                    /\ \A u \in UserIds : t[u].id = u
                    /\ t[101].username \in {UserName(101), "carol"}
                    /\ t[102].username = UserName(102) }
    /\ files = {}
    /\ procs = [p \in Procs |-> IdleProc]
    /\ updates = 0
    /\ returned = {}
    /\ tx = NoTx
    /\ sheets = FALSE
    /\ highest = 0
    /\ prompts = <<>>

\* the session gate alone: text and contact messages, handled concurrently
NextGate ==
    \/ NewBotAPIFails
    \/ NewSheets
    \/ VerifyAdmins
    \/ StopBeforeCommit
    \/ \E p \in Procs :
        \/ \E u \in UserIds :
            \E m \in {TextMsg(u)} \cup { ContactMsg(u, ph) : ph \in Phones } :
                Deliver(p, m, MaxUpdates)
        \/ GateRead(p)
        \/ SaveNewUser(p)
        \/ SavePhone(p)
        \/ ProcessMessage(p)

SpecGate == InitGate /\ [][NextGate]_vars

\* ingestion alone: documents and voice messages of both users, handled
\* concurrently
NextUploads ==
    \/ NewBotAPIFails
    \/ NewSheets
    \/ VerifyAdmins
    \/ StopBeforeCommit
    \/ \E p \in Procs :
        \/ \E u \in UserIds :
            \E m \in {DocumentMsg(u, "a.txt", "text/plain"), MediaMsg(u, "voice", "", "")} :
                Deliver(p, m, MaxUpdates)
        \/ GateRead(p)
        \/ SaveNewUser(p)
        \/ Fetch(p)
        \/ SaveFileFindDuplicate(p)
        \/ SaveFileNextId(p)
        \/ SaveFileInsert(p)

SpecUploads == Init /\ [][NextUploads]_vars

\* one chat: user 102 uploads a document, asks to delete file 2 and presses
\* the buttons of the prompt, one update after the other
NextPrompts ==
    \/ NewBotAPIFails
    \/ NewSheets
    \/ VerifyAdmins
    \/ StopBeforeCommit
    \/ \E p \in Procs :
        \/ /\ Quiet
           /\ \E m \in {DocumentMsg(102, "a.txt", "text/plain"),
                         CommandMsg(102, "delete", FormatId(2)),
                         Callback(102, ConfirmToken(2)),
                         Callback(102, CancelToken(2))} :
                Deliver(p, m, MaxPromptUpdates)
        \/ GateRead(p)
        \/ SaveNewUser(p)
        \/ Fetch(p)
        \/ SaveFileFindDuplicate(p)
        \/ SaveFileNextId(p)
        \/ SaveFileInsert(p)
        \/ DeleteReadFile(p)
        \/ DeleteCheckUser(p)
        \/ HandleCallback(p)

SpecPrompts == Init /\ [][NextPrompts]_vars

\* the captions a photo or a video is sent with
Captions == {"", "x.heic", "X.HEIC", "x.mov", "X.MOV"}

\* media of every kind: documents, voice messages, photos and videos with
\* and without a caption, videos and audio with and without a file name,
\* video notes, sent by user 102; one update after the other
NextMedia ==
    \/ NewBotAPIFails
    \/ NewSheets
    \/ VerifyAdmins
    \/ StopBeforeCommit
    \/ \E p \in Procs :
        \/ /\ Quiet
           /\ \E u \in {102} :
                \E m \in {DocumentMsg(u, "a.txt", "text/plain"),
                          MediaMsg(u, "voice", "", ""),
                          MediaMsg(u, "video_note", "", ""),
                          MediaMsg(u, "audio", "", ""),
                          MediaMsg(u, "audio", "a.mp3", ""),
                          MediaMsg(u, "video", "a.mp4", "x.mov")}
                         \cup { MediaMsg(u, k, "", c) : k \in {"photo", "video"},
                                                      c \in Captions } :
                    Deliver(p, m, MaxUpdates)
        \/ GateRead(p)
        \/ SaveNewUser(p)
        \/ Fetch(p)
        \/ SaveFileFindDuplicate(p)
        \/ SaveFileNextId(p)
        \/ SaveFileInsert(p)

SpecMedia == Init /\ [][NextMedia]_vars


\* ================================================================ claims

\* goroutine p takes the step
StepOf(p) == procs'[p] # procs[p]

Range(seq) == { seq[i] : i \in DOMAIN seq }

\* the run's gate read a stored user with a non-empty phone
ReadActive(run) ==
    run.existingUser # {} /\ \A e \in run.existingUser : e.phone # ""

\* the run's gate read a stored user with an empty phone
ReadAwaitingPhone(run) ==
    run.existingUser # {} /\ \A e \in run.existingUser : e.phone = ""

SameKey(f, g) ==
    f.user_id = g.user_id /\ f.file_name = g.file_name /\ f.file_type = g.file_type

LastReply(run) == run.replies[Len(run.replies)]

\* C1: a handleMessage run whose gate read succeeded and found no row, for a
\* user that has no row when the run saves, sends the phone request and
\* nothing else, whatever the message carries; when SaveUser returns no
\* error the table gains exactly the row of that id, with an empty phone,
\* and every other row is unchanged; when it returns an error the table is
\* unchanged.
C1_FirstMessage ==
    [][\A p \in Procs :
        LET u == procs[p].msg.from
        IN  (At(p, "save_user") /\ StepOf(p) /\ procs[p].logs = <<>> /\ u \notin DOMAIN users)
            => /\ returned' # {}
               /\ \A r \in returned' :
                    /\ r.replies = <<Reply(MsgPhoneRequest)>>
                    /\ IF r.logs = <<>>
                       THEN /\ DOMAIN users' = DOMAIN users \cup {u}
                            /\ users'[u].id = u
                            /\ users'[u].phone = ""
                            /\ \A v \in DOMAIN users : users'[v] = users[v]
                       ELSE users' = users]_vars

\* C1 witness: a first message that carries a contact was answered with the
\* phone request and left the new row's phone empty
C1_Witness ==
    \E r \in returned :
        /\ r.msg.kind = "contact"
        /\ r.existingUser = {} /\ r.logs = <<>>
        /\ r.replies = <<Reply(MsgPhoneRequest)>>
        /\ r.msg.from \in DOMAIN users /\ users[r.msg.from].phone = ""

\* C2 (as claimed): for a run whose gate read a row with an empty phone, a
\* message without a contact re-sends the phone request and leaves the table
\* unchanged; a contact message whose phone write returns no error stores
\* the contact's phone and sends the confirmation; and a user whose stored
\* phone is non-empty keeps a non-empty phone, so that every later message
\* is handled as Active.
C2_AwaitingPhone ==
    [][/\ \A r \in returned' :
            ReadAwaitingPhone(r) =>
                IF r.msg.kind # "contact"
                THEN r.replies = <<Reply(MsgPhoneRequest)>> /\ users' = users
                ELSE r.logs = <<>> =>
                        /\ users'[r.msg.from].phone = r.msg.phone
                        /\ r.replies = <<Reply(MsgPhoneSaved)>>
       /\ \A u \in DOMAIN users :
            users[u].phone # "" => u \in DOMAIN users' /\ users'[u].phone # ""]_vars

\* C3: a goroutine is in handleFileUpload, handleCommand or processMessage
\* only if its gate read a stored user with a non-empty phone; a run whose
\* gate read anything else has read no file, built no file record and sent
\* nothing but the phone request or the phone confirmation.
PayloadPcs ==
    {"fetch", "save_dedup", "save_last", "save_insert", "process", "list_files",
     "list_user", "list_all", "show_file", "show_user", "delete_file", "delete_user"}

C3_PayloadGated ==
    /\ \A p \in Procs : procs[p].pc \in PayloadPcs => ReadActive(procs[p])
    /\ \A r \in returned :
        (r.msg.kind # "callback" /\ ~ReadActive(r)) =>
            /\ r.file = {} /\ r.dbFile = {}
            /\ r.replies \in {<<Reply(MsgPhoneRequest)>>, <<Reply(MsgPhoneSaved)>>}

\* C3 witness: a document sent by a user whose phone is not captured yet was
\* answered with the phone request only
C3_Witness ==
    \E r \in returned :
        /\ r.msg.kind = "document" /\ ReadAwaitingPhone(r)
        /\ r.replies = <<Reply(MsgPhoneRequest)>> /\ r.dbFile = {}

\* C4 (serialized handling): when SaveFile's duplicate query runs without an
\* error while a file with the same owner, name and type is stored, the run
\* ends with the duplicate notice and the collection is unchanged, whatever
\* the payload; an insert that succeeds adds exactly one file, with the
\* run's owner, name, type and payload; no two stored files share a key.
C4_Dedup ==
    [][/\ \A p \in Procs :
            (At(p, "save_dedup") /\ StepOf(p)
                /\ (\E g \in files : \A f \in procs[p].dbFile : SameKey(f, g))
                /\ (\A r \in returned' : LogSaveFile \notin Range(r.logs)))
            => /\ returned' # {}
               /\ \A r \in returned' : LastReply(r) = Reply(MsgDuplicate)
               /\ files' = files
       /\ \A p \in Procs :
            (At(p, "save_insert") /\ StepOf(p)
                /\ (\A r \in returned' : LogSaveFile \notin Range(r.logs)))
            => \E g \in files' \ files :
                /\ files' = files \cup {g}
                /\ \A f \in procs[p].dbFile :
                        SameKey(f, g) /\ g.file_data = f.file_data
       /\ \A f, g \in files' : SameKey(f, g) => f = g]_vars

\* C4 witness: an upload was answered with the duplicate notice while the
\* stored file of the same key holds other bytes
C4_Witness ==
    \E r \in returned :
        /\ r.dbFile # {} /\ LastReply(r) = Reply(MsgDuplicate)
        /\ \E g \in files : \A f \in r.dbFile :
                SameKey(f, g) /\ g.file_data # f.file_data

\* C5 (as claimed): in every reachable state no two stored files have the
\* same owner, name and type.
C5_UniqueKeys ==
    \A f, g \in files : SameKey(f, g) => f = g

\* C6 (as claimed): a /show or /delete run that read a file of another
\* owner and whose user read returned a row without the administrator flag
\* sends the permission-denied notice and nothing else.
C6_DeniedOnly ==
    \A r \in returned :
        LET from == r.msg.from
        IN  (/\ r.msg.kind = "command" /\ r.msg.command \in {"show", "delete"}
             /\ r.file # {} /\ (\A f \in r.file : f.user_id # from)
             /\ r.logs = <<>>
             /\ from \in DOMAIN users /\ ~users[from].is_admin)
            => r.replies = <<Reply(IF r.msg.command = "show" THEN MsgShowDenied
                                                             ELSE MsgDeleteDenied)>>

\* C6 (amended): a /show or /delete run that read a file of another owner and whose
\* user read returned a row without the administrator flag is answered with
\* the permission-denied notice (after the "wait" text that /show sends
\* before it reads anything): no file is sent and no confirmation prompt is
\* issued; neither the gate read nor any step of handleCommand of a /show
\* or /delete run changes either store.
C6_PermissionDenied ==
    [][/\ \A r \in returned' :
            LET from == r.msg.from
            IN  (/\ r.msg.kind = "command" /\ r.msg.command \in {"show", "delete"}
                 /\ r.file # {} /\ (\A f \in r.file : f.user_id # from)
                 /\ r.logs = <<>>
                 /\ from \in DOMAIN users /\ ~users[from].is_admin)
                => r.replies = IF r.msg.command = "show"
                               THEN <<Reply(MsgWait), Reply(MsgShowDenied)>>
                               ELSE <<Reply(MsgDeleteDenied)>>
       /\ \A p \in Procs :
            (/\ procs[p].msg.command \in {"show", "delete"}
             /\ procs[p].pc \in {"gate", "show_file", "show_user",
                                 "delete_file", "delete_user"}
             /\ StepOf(p))
            => users' = users /\ files' = files]_vars

\* C6 witness: /show of another owner's file by a non-administrator was
\* refused
C6_Witness ==
    \E r \in returned :
        /\ r.msg.command = "show"
        /\ r.replies = <<Reply(MsgWait), Reply(MsgShowDenied)>>
        /\ \E f \in r.file : f \in files /\ f.user_id # r.msg.from

\* C7: a callback carrying confirm_delete_<id> for the id of a stored file,
\* whose delete returns no error, removes the files with that id and no
\* other file, and leaves the user table unchanged.
C7_ConfirmOne ==
    [][\A p \in Procs : \A id \in IdRange \ {0} :
        (/\ At(p, "callback") /\ StepOf(p)
         /\ procs[p].msg.data = ConfirmToken(id)
         /\ \E f \in files : f.id = id
         /\ \A r \in returned' : r.logs = <<>>)
        => /\ files' = { f \in files : f.id # id }
           /\ files' # files
           /\ users' = users]_vars

\* C7 witness: confirm_delete_1 was executed and another file is still stored
C7_Witness ==
    \E r \in returned :
        /\ r.msg.data = ConfirmToken(1) /\ r.logs = <<>>
        /\ r.replies = <<Reply(MsgDeleteDone)>>
        /\ files # {} /\ \A f \in files : f.id # 1

\* C8: a callback carrying confirm_delete_all, whose delete returns no
\* error, removes every file whose owner is the callback's sender and no
\* file of another owner, also for an administrator; the user table is
\* unchanged.
C8_ConfirmAll ==
    [][\A p \in Procs :
        (/\ At(p, "callback") /\ StepOf(p)
         /\ procs[p].msg.data = ConfirmAllToken
         /\ \A r \in returned' : r.logs = <<>>)
        => /\ files' = { f \in files : f.user_id # procs[p].msg.from }
           /\ users' = users]_vars

\* C8 witness: an administrator confirmed confirm_delete_all; none of the
\* administrator's files is left and a file of another owner is
C8_Witness ==
    \E r \in returned :
        /\ r.msg.data = ConfirmAllToken /\ r.logs = <<>>
        /\ r.replies = <<Reply(MsgDeleteAllDone)>>
        /\ r.msg.from \in DOMAIN users /\ users[r.msg.from].is_admin
        /\ files # {} /\ \A f \in files : f.user_id # r.msg.from

\* C9: a callback whose data starts with cancel_delete_ leaves the file
\* collection and the user table unchanged and sends the cancellation
\* notice (the one for all files for cancel_delete_all, the one for a file
\* otherwise).
C9_Cancel ==
    [][\A p \in Procs :
        (/\ At(p, "callback") /\ StepOf(p)
         /\ procs[p].msg.data.prefix = CancelPrefix)
        => /\ files' = files /\ users' = users
           /\ returned' # {}
           /\ \A r \in returned' :
                r.replies = <<Reply(IF r.msg.data.rest = "all" THEN MsgCancelAll
                                                               ELSE MsgCancelOne)>>]_vars

\* C9 witness: cancel_delete_1 was handled while file 1 is stored
C9_Witness ==
    \E r \in returned :
        /\ r.msg.data = CancelToken(1)
        /\ r.replies = <<Reply(MsgCancelOne)>>
        /\ \E f \in files : f.id = 1

\* C10 (as claimed): every handleCallback run has acknowledged the callback
\* exactly once when it returns.
C10_AckOnce ==
    \A r \in returned : r.msg.kind = "callback" => r.acks = 1

\* C11: a stored file leaves the collection, or is changed in it, only in
\* a step of a handleCallback run whose data starts with confirm_delete_;
\* no step of a handleMessage run (/delete and /deleteall included) removes
\* or changes a stored file.
C11_RemovedOnlyByConfirm ==
    [][/\ (\E f \in files : f \notin files')
            => \E p \in Procs : /\ At(p, "callback") /\ StepOf(p)
                                /\ procs[p].msg.data.prefix = ConfirmPrefix
       /\ \A p \in Procs :
            (procs[p].msg.kind \notin {"callback", "none"} /\ StepOf(p))
            => \A f \in files : f \in files']_vars

\* C11 witness: /delete of a stored file returned with the confirmation
\* prompt and the file is still stored
C11_Witness ==
    \E r \in returned :
        /\ r.msg.command = "delete"
        /\ r.file # {} /\ r.file \subseteq files
        /\ \E i \in DOMAIN r.replies : r.replies[i].buttons # {}

\* C12: when the delete of a confirm callback (one file or all files)
\* returns an error, the run sends the deletion-error notice of its branch
\* and nothing else, and the file collection is unchanged.
C12_DeleteFailure ==
    [][\A p \in Procs : \A r \in returned' :
        (/\ At(p, "callback") /\ StepOf(p)
         /\ Range(r.logs) \cap {LogDeleteFile, LogDeleteFiles} # {})
        => /\ files' = files
           /\ r.replies = <<Reply(IF r.msg.data = ConfirmAllToken
                                  THEN MsgDeleteAllError ELSE MsgDeleteError)>>]_vars

\* C12 witness: the delete of confirm_delete_1 failed, the error notice was
\* sent and file 1 is still stored
C12_Witness ==
    \E r \in returned :
        /\ r.msg.data = ConfirmToken(1)
        /\ LogDeleteFile \in Range(r.logs)
        /\ r.replies = <<Reply(MsgDeleteError)>>
        /\ \E f \in files : f.id = 1

\* C13: when UpdateAdminStatuses(admins) commits, every stored user's flag
\* is true exactly when admins holds the user's stored username with the
\* value true (so it is false for a username that is absent or mapped to
\* false, whatever the flag was before); no row is added or removed and no
\* other column changes.
C13_Reconciled ==
    [][(phase = "verify" /\ phase' = "running")
        => /\ DOMAIN users' = DOMAIN users
           /\ \A u \in DOMAIN users :
                /\ users'[u].is_admin =
                        (/\ users[u].username \in DOMAIN tx.admins
                         /\ tx.admins[users[u].username])
                /\ [users'[u] EXCEPT !.is_admin = users[u].is_admin] = users[u]]_vars

\* C13 witness: reconciled with a map that holds alice as false and bob as
\* true; alice's flag is false and bob's is true
C13_Witness ==
    /\ phase = "running" /\ tx.pc = "committed"
    /\ DOMAIN tx.admins = {"alice", "bob"}
    /\ ~tx.admins["alice"] /\ tx.admins["bob"]
    /\ DOMAIN users = UserIds
    /\ ~users[101].is_admin /\ users[102].is_admin

\* C14: until the process is running, a step either leaves the stored user
\* table as it is (a failed Begin, a failed statement, a failed commit, the
\* process stopping, and every statement inside the open transaction) or is
\* the commit, after which every flag reflects the map; the cleared but
\* not yet re-set flags exist only inside the transaction.
C14_AllOrNothing ==
    [][(phase = "startup" \/ phase = "verify")
        => (\/ users' = users
            \/ (phase' = "running" /\
                \A u \in DOMAIN users' :
                    users'[u].is_admin =
                        (users'[u].username \in DOMAIN tx.admins /\
                         tx.admins[users'[u].username])))]_vars

\* C14 witness: inside the open transaction a flag is cleared while the
\* stored table still holds it
C14_Witness ==
    /\ phase = "verify" /\ tx.pc = "set"
    /\ \E u \in DOMAIN users : users[u].is_admin /\ ~tx.rows[u].is_admin

\* C15: when handleFileUpload's download step ran with an announced size
\* (FileSize on the primary path, ContentLength on the fallback path)
\* greater than 104857600, the run returns in that step with the oversize
\* notice as its only reply and the collection is unchanged; with an
\* announced size of exactly 104857600 the oversize notice is not sent, and
\* when the download and the read succeed the run goes on to SaveFile.
C15_Ceiling ==
    [][\A p \in Procs :
        (At(p, "fetch") /\ StepOf(p))
        => /\ \A r \in returned' : \A n \in r.size :
                /\ n > 104857600
                    => r.replies = <<Reply(MsgTooBig)>> /\ files' = files
                /\ n <= 104857600
                    => \A i \in DOMAIN r.replies : r.replies[i] # Reply(MsgTooBig)
           /\ returned' = {} => \A n \in procs'[p].size : n <= 104857600
           /\ files' = files]_vars

\* C15 witness: an upload announced with exactly 104857600 bytes has passed
\* the size check and is about to be saved
C15_Witness ==
    \E p \in Procs :
        /\ procs[p].pc = "save_dedup"
        /\ procs[p].size = {104857600}

\* C16 (serialized handling): an insert of SaveFile that succeeds adds one
\* file whose id is 1 when the collection was empty and the greatest stored
\* id plus one otherwise; the run's last reply is the success message with
\* that file's id, name and type; every stored id is positive.
C16_NextId ==
    [][/\ \A p \in Procs :
            (At(p, "save_insert") /\ StepOf(p) /\ files' # files)
            => \E g \in files' \ files :
                /\ files' = files \cup {g}
                /\ \/ files = {} /\ g.id = 1
                   \/ \E m \in files : /\ \A f \in files : f.id <= m.id
                                       /\ g.id = m.id + 1
                /\ returned' # {}
                /\ \A r \in returned' :
                    /\ LastReply(r).text = MsgSaved
                    /\ LastReply(r).id = g.id
                    /\ LastReply(r).name = g.file_name
                    /\ LastReply(r).type = g.file_type
       /\ \A f \in files' : f.id >= 1]_vars

\* C16 witness: with files 1 and 2 stored, an upload was stored as file 3
\* and answered with id 3
C16_Witness ==
    \E r \in returned : \E g \in files :
        /\ r.dbFile = {g} /\ g.id = 3
        /\ LastReply(r).text = MsgSaved /\ LastReply(r).id = 3
        /\ \E f \in files : f.id = 2

\* C17: when SaveFile has returned without an error and the audit sink is
\* absent or its call fails, the file is stored, the user table is
\* unchanged, and the run's replies are the loading notice and the success
\* message with the stored file's id, and nothing after it.
C17_AuditBestEffort ==
    [][\A p \in Procs :
        (/\ At(p, "save_insert") /\ StepOf(p)
         /\ \A r \in returned' :
                /\ LogSaveFile \notin Range(r.logs)
                /\ ~sheets \/ LogSheetsError \in Range(r.logs))
        => /\ returned' # {}
           /\ users' = users
           /\ \A r \in returned' : \A g \in r.dbFile :
                /\ g \in files'
                /\ r.replies = <<Reply(MsgLoading), ReplySaved(MsgSaved, g)>>]_vars

\* C17 witness: the audit call failed for an upload that is stored and was
\* answered with the success message
C17_Witness ==
    \E r \in returned :
        /\ LogSheetsError \in Range(r.logs)
        /\ r.dbFile # {} /\ r.dbFile \subseteq files
        /\ LastReply(r).text = MsgSaved

\* the /list reply that lists exactly the files fs
Listing(fs) ==
    IF fs = {} THEN <<Reply(MsgNoFiles)>>
    ELSE <<[Reply(MsgFileList) EXCEPT !.ids = { f.id : f \in fs }]>>

\* C18: in a /list run, GetUserFiles that returns no error reads exactly
\* the stored files whose owner is the sender; when the user read returns a
\* row without the administrator flag the reply lists exactly those files;
\* when it returns a row with the flag the run reads all files, and when
\* that read returns no error the reply lists every stored file.
C18_List ==
    [][\A p \in Procs :
        LET from == procs[p].msg.from
        IN  (/\ procs[p].msg.command = "list" /\ StepOf(p)
             /\ \A r \in returned' : r.logs = <<>>)
            => /\ At(p, "list_files")
                    => procs'[p].file = { f \in files : f.user_id = from }
               /\ (At(p, "list_user") /\ from \in DOMAIN users /\ ~users[from].is_admin)
                    => /\ returned' # {}
                       /\ \A r \in returned' : r.replies = Listing(procs[p].file)
                       /\ \A f \in procs[p].file : f.user_id = from
               /\ (At(p, "list_user") /\ from \in DOMAIN users /\ users[from].is_admin)
                    => procs'[p].pc = "list_all"
               /\ At(p, "list_all")
                    => /\ returned' # {}
                       /\ \A r \in returned' : r.replies = Listing(files)]_vars

\* C18 witness: a user without the flag got a list of one file while a file
\* of another owner is stored
C18_Witness ==
    \E r \in returned :
        /\ r.msg.command = "list"
        /\ r.msg.from \in DOMAIN users /\ ~users[r.msg.from].is_admin
        /\ r.replies = Listing({ f \in files : f.user_id = r.msg.from })
        /\ \E f \in files : f.user_id = r.msg.from
        /\ \E f \in files : f.user_id # r.msg.from

\* C19: a /show or /delete run that read a stored file and whose user read
\* returned a row that has the administrator flag, or is the file's owner,
\* ends as follows: /show sends, after its "wait" text, the file with the
\* stored name and bytes; /delete sends the confirmation prompt whose two
\* buttons carry confirm_delete_<id> and cancel_delete_<id> of that file.
C19_Granted ==
    [][\A r \in returned' : \A g \in r.file :
        LET from == r.msg.from
        IN  (/\ r.msg.kind = "command" /\ r.msg.command \in {"show", "delete"}
             /\ r.logs = <<>>
             /\ from \in DOMAIN users
             /\ users[from].is_admin \/ g.user_id = from)
            => IF r.msg.command = "show"
               THEN /\ Len(r.replies) = 2
                    /\ r.replies[1] = Reply(MsgWait)
                    /\ r.replies[2].text \in {SendPhoto, SendVideo, SendAudio, SendDocument}
                    /\ r.replies[2].name = g.file_name
                    /\ r.replies[2].data = g.file_data
               ELSE /\ Len(r.replies) = 1
                    /\ r.replies[1].text = MsgConfirmDelete
                    /\ r.replies[1].buttons = {ConfirmToken(g.id), CancelToken(g.id)}]_vars

\* C19 witness: an administrator was sent the bytes of a file of another
\* owner
C19_Witness ==
    \E r \in returned : \E g \in r.file :
        /\ r.msg.command = "show"
        /\ r.msg.from \in DOMAIN users /\ users[r.msg.from].is_admin
        /\ g.user_id # r.msg.from
        /\ LastReply(r).data = g.file_data

\* C20 (as claimed): every handleMessage run that has returned has sent at
\* least one reply.
C20_AlwaysReplies ==
    \A r \in returned : r.msg.kind # "callback" => Len(r.replies) >= 1

\* C21 (as claimed): a user whose stored phone is non-empty keeps a row with
\* a non-empty phone in every step, whatever the handlers that are running
\* have read before.
C21_ActiveTerminal ==
    [][\A u \in DOMAIN users :
        users[u].phone # "" => (u \in DOMAIN users' /\ users'[u].phone # "")]_vars

\* C22 (as claimed): a gate step of a run that has logged a failed user
\* read, or that logs a failed user write or phone write, leaves the row of
\* the sender, when there is one, exactly as it was.
C22_GateFailure ==
    [][\A p \in Procs :
        LET u == procs[p].msg.from
        IN  (/\ StepOf(p) /\ procs[p].pc \in {"gate", "save_user", "update_phone"}
             /\ u \in DOMAIN users
             /\ \/ LogGetUser \in Range(procs[p].logs)
                \/ \E r \in returned' :
                        Range(r.logs) \cap {LogGetUser, LogSaveUser, LogUpdatePhone} # {})
            => u \in DOMAIN users' /\ users'[u] = users[u]]_vars

\* C23 (as claimed): no stored file has a payload longer than 104857600
\* bytes.
C23_PayloadCeiling ==
    \A f \in files : f.file_data.len <= 104857600

\* C24 (as claimed, serialized handling): a file that enters the collection
\* has an id greater than every id assigned before.
C24_Monotonic ==
    [][\A g \in files' \ files : g.id > highest]_vars

\* C25 (as claimed, serialized handling): the id of a file that enters the
\* collection is the smallest positive integer that is not the id of a
\* stored file.
C25_SmallestUnused ==
    [][\A g \in files' \ files :
        /\ g.id >= 1
        /\ \A f \in files : f.id # g.id
        /\ \A n \in 1..(g.id - 1) : \E f \in files : f.id = n]_vars

\* C25 (amended, serialized handling): the id of a file that enters the
\* collection is the smallest positive integer greater than the id of every
\* stored file; ids below it that are not in use stay unused.
C25_AboveEveryStored ==
    [][\A p \in Procs :
        (At(p, "save_insert") /\ StepOf(p))
        => \A g \in files' \ files :
            /\ g.id >= 1
            /\ \A f \in files : f.id < g.id
            /\ \A n \in 1..(g.id - 1) : \E f \in files : f.id >= n]_vars

\* C25 witness: an upload was stored as file 3 while id 1 is not in use
C25_Witness ==
    \E r \in returned : \E g \in r.dbFile \cap files :
        /\ g.id = 3
        /\ LastReply(r).text = MsgSaved
        /\ \A f \in files : f.id # 1

\* C26: no two stored files share an id; an insert of SaveFile made while a
\* file with the id it computed is stored (another ingestion read the same
\* last id and inserted first) leaves the collection as it is, the stored
\* file included, and the run ends with the storage-error notice.
C26_IdCollision ==
    [][/\ \A f, g \in files' : f.id = g.id => f = g
       /\ \A p \in Procs :
            (/\ At(p, "save_insert") /\ StepOf(p)
             /\ \E f \in files : \A d \in procs[p].dbFile : f.id = d.id)
            => /\ files' = files
               /\ returned' # {}
               /\ \A r \in returned' : LastReply(r) = Reply(MsgSaveError)]_vars

\* C26 witness: an ingestion ended with the storage-error notice while a
\* file of another key holds the id it had computed
C26_Witness ==
    \E r \in returned : \E d \in r.dbFile : \E f \in files :
        /\ f.id = d.id /\ ~SameKey(f, d)
        /\ LastReply(r) = Reply(MsgSaveError)

\* C28: a confirm_delete_<id> callback whose delete returns no error
\* removes the file with that id and sends the deletion notice also when
\* the sender is not the file's owner, has no administrator flag (or no row
\* at all) and no prompt for that id was ever sent.
C28_NoAuthorization ==
    [][\A p \in Procs : \A id \in IdRange \ {0} :
        LET u == procs[p].msg.from
        IN  (/\ At(p, "callback") /\ StepOf(p)
             /\ procs[p].msg.data = ConfirmToken(id)
             /\ \A f \in files : f.id = id => f.user_id # u
             /\ u \in DOMAIN users => ~users[u].is_admin
             /\ id \notin DOMAIN prompts
             /\ \A r \in returned' : r.logs = <<>>)
            => /\ \A f \in files' : f.id # id
               /\ returned' # {}
               /\ \A r \in returned' : r.replies = <<Reply(MsgDeleteDone)>>]_vars

\* C28 witness: file 1 of another owner was removed by the confirm callback
\* of a user without the administrator flag, the first update of the run
C28_Witness ==
    \E r \in returned :
        /\ r.msg.data = ConfirmToken(1) /\ r.replies = <<Reply(MsgDeleteDone)>>
        /\ r.msg.from \in DOMAIN users /\ ~users[r.msg.from].is_admin
        /\ updates = 1 /\ prompts = <<>>
        /\ highest >= 1 /\ files # {} /\ \A f \in files : f.id # 1

\* C27 (as claimed): once a choice of a prompt has been handled (the prompt
\* is Cancelled or Executed), a callback carrying the confirm or the cancel
\* token of that prompt leaves the file collection as it is.
C27_ResolvedOnce ==
    [][\A p \in Procs : \A id \in DOMAIN prompts :
        (/\ At(p, "callback") /\ StepOf(p)
         /\ procs[p].msg.data \in {ConfirmToken(id), CancelToken(id)}
         /\ prompts[id].state \in {"Cancelled", "Executed"})
        => files' = files]_vars

\* C29 (as claimed): a callback carrying the confirm token of a prompt
\* removes no file other than the one the prompt was sent for.
C29_TokenFile ==
    [][\A p \in Procs : \A id \in DOMAIN prompts :
        (/\ At(p, "callback") /\ StepOf(p)
         /\ procs[p].msg.data = ConfirmToken(id))
        => \A f \in files : f \notin files' => f = prompts[id].file]_vars

\* C30 (as claimed): while the process is running, no step changes the
\* administrator flag of a row or removes a row.
C30_FlagFrame ==
    [][phase = "running"
        => \A u \in DOMAIN users :
            u \in DOMAIN users' /\ users'[u].is_admin = users[u].is_admin]_vars

\* C31: no update is dispatched and no handler takes a step unless the
\* process is running with the administrator reconciliation committed; the
\* process starts running only in the step that commits the reconciliation;
\* a failure of the bot construction or of the reconciliation (Begin, a
\* statement, the commit) ends the process with no update ever handled, and
\* an ended process never handles anything.
C31_StartupOrdering ==
    [][/\ (procs' # procs \/ updates' # updates)
            => (phase = "running" /\ tx.pc = "committed")
       /\ (phase # "running" /\ phase' = "running")
            => (tx.pc = "set" /\ tx'.pc = "committed" /\ users' = tx.rows)
       /\ (phase # "running" /\ phase' # "running" /\ phase' # phase)
            => (\/ phase = "startup" /\ phase' = "verify"
                \/ /\ phase' = "exited" /\ tx'.pc = "none"
                   /\ updates' = 0 /\ Quiet' /\ users' = users)
       /\ phase = "exited" => UNCHANGED vars]_vars

\* C31 witness: the reconciliation failed, the process has ended and no
\* update was ever dispatched
C31_Witness ==
    /\ phase = "exited" /\ tx.pc = "none" /\ sheets
    /\ updates = 0 /\ Quiet

\* the kind of failure an ingestion ended with, read from what happened in
\* it (the lines logged and how far the record got), not from its notice
FailureKind(logs, dbFile) ==
    IF LogJson \in Range(logs) THEN "malformed"
    ELSE IF Range(logs) \cap {LogDownload, LogDownloadAlt, LogReadFile} # {} THEN "transport"
    ELSE IF LogSaveFile \in Range(logs) THEN "storage"
    ELSE IF dbFile = {} THEN "oversize"
    ELSE IF \A f \in dbFile : f.id = 0 THEN "duplicate"
    ELSE "none"

UploadPcs == {"fetch", "save_dedup", "save_last", "save_insert"}

\* C32: an ingestion that ends with a failure of one kind (oversize,
\* transport error, malformed response, duplicate, storage error) stores no
\* file, and its notice is a text that no ingestion failing with another
\* kind is answered with, on the primary and on the fallback path.
C32_DistinctNotices ==
    [][\A p \in Procs :
        (phase = "running" /\ procs[p].pc \in UploadPcs /\ StepOf(p))
        => \A r \in returned' :
            LET kind == FailureKind(r.logs, r.dbFile)
            IN  kind # "none"
                => /\ files' = files
                   /\ kind # "duplicate" => LastReply(r).text # MsgDuplicate
                   /\ kind # "storage" => LastReply(r).text # MsgSaveError
                   /\ \A t \in Transports :
                        LET d == Download(t)
                        IN  (~d.got /\ FailureKind(d.logs, {}) # kind)
                            => LastReply(d).text # LastReply(r).text]_vars

\* the run took the fallback path: GetFile failed
Fallback(run) == LogGetFileInfo \in Range(run.logs)

\* C33: an upload whose GetFile failed goes on to the fallback fetch.  When
\* the fetch failed or answered with JSON the run returns with the
\* failure notice as its only reply and nothing is stored.  Otherwise the
\* run does what the primary path does from the ceiling on: it returns with
\* the oversize notice or the read-error notice, or it announces the
\* loading and goes to SaveFile with a record of the sender, the target
\* name and type and the bytes read; in SaveFile a duplicate key ends it
\* with the duplicate notice, and an insert that succeeds stores exactly
\* the record (its id is the one read after the last stored id), writes the
\* audit line when the sink is there, and sends the success reply last.
C33_Fallback ==
    [][\A p \in Procs :
        (phase = "running" /\ StepOf(p))
        => /\ procs[p].pc = "fetch"
                => /\ files' = files
                   /\ \A r \in returned' :
                        Fallback(r)
                        => IF Range(r.logs) \cap {LogDownloadAlt, LogJson} # {}
                           THEN r.replies = <<Reply(MsgGetFileError)>>
                           ELSE \/ /\ r.replies = <<Reply(MsgTooBig)>>
                                   /\ \E n \in r.size : n > maxFileSize
                                \/ /\ r.replies = <<Reply(MsgLoading), Reply(MsgReadError)>>
                                   /\ LogReadFile \in Range(r.logs)
                   /\ (returned' = {} /\ Fallback(procs'[p]))
                        => /\ procs'[p].pc = "save_dedup"
                           /\ procs'[p].logs = <<LogGetFileInfo>>
                           /\ procs'[p].replies = <<Reply(MsgLoading)>>
                           /\ \E body \in Payloads :
                                LET m == procs[p].msg
                                IN  procs'[p].dbFile =
                                        {File(0, m.from, UploadTarget(m).name,
                                              UploadTarget(m).type, body)}
           /\ (procs[p].pc = "save_dedup" /\ Fallback(procs[p]))
                => /\ files' = files
                   /\ (\E f \in files : \E g \in procs[p].dbFile : SameKey(f, g))
                        => \A r \in returned' :
                            LastReply(r).text \in {MsgDuplicate, MsgSaveError}
           /\ (procs[p].pc = "save_last" /\ Fallback(procs[p]))
                => /\ files' = files
                   /\ returned' = {}
                        => \A g \in procs'[p].dbFile : g.id = LastFileId(files) + 1
           /\ (procs[p].pc = "save_insert" /\ Fallback(procs[p]))
                => \A r \in returned' :
                    \/ /\ files' = files
                       /\ r.replies = <<Reply(MsgLoading), Reply(MsgSaveError)>>
                    \/ /\ files' = files \cup r.dbFile /\ files' # files
                       /\ \A g \in r.dbFile :
                            r.replies = <<Reply(MsgLoading), ReplySaved(MsgSaved, g)>>
                       /\ \E logged \in BOOLEAN :
                            r.logs = <<LogGetFileInfo>> \o AuditLogs(sheets, logged)]_vars

\* C33 witness: an upload whose GetFile failed is stored and was answered
\* with the success reply
C33_Witness ==
    \E r \in returned :
        /\ Fallback(r)
        /\ r.dbFile # {} /\ r.dbFile \subseteq files
        /\ LastReply(r).text = MsgSaved

\* C34: the record handleFileUpload builds for a media message has the
\* name and type of its kind: (voice.ogg, audio/ogg) for a voice message;
\* (photo.heic, image/heic) for a photo whose caption ends in .heic in any
\* case and (photo.jpg, image/jpeg) for every other photo; for a video
\* without a file name (video.mp4, video/mp4), unless its caption ends in
\* .mov, when the name is video.mov and the type is no longer the default
\* video/mp4; a document's own name and MIME type.
C34_NameAndType ==
    [][\A p \in Procs :
        (phase = "running" /\ procs[p].pc = "fetch" /\ StepOf(p))
        => \A g \in procs'[p].dbFile :
            LET m == procs[p].msg
                heic == m.caption \in {"x.heic", "X.HEIC"}
                mov == m.caption \in {"x.mov", "X.MOV"}
            IN  /\ m.kind = "voice"
                    => g.file_name = "voice.ogg" /\ g.file_type = "audio/ogg"
                /\ (m.kind = "photo" /\ heic)
                    => g.file_name = "photo.heic" /\ g.file_type = "image/heic"
                /\ (m.kind = "photo" /\ ~heic)
                    => g.file_name = "photo.jpg" /\ g.file_type = "image/jpeg"
                /\ (m.kind = "video" /\ m.file_name = "" /\ ~mov)
                    => g.file_name = "video.mp4" /\ g.file_type = "video/mp4"
                /\ (m.kind = "video" /\ m.file_name = "" /\ mov)
                    => g.file_name = "video.mov" /\ g.file_type # "video/mp4"
                /\ m.kind = "document"
                    => g.file_name = m.file_name /\ g.file_type = m.mime_type]_vars

\* C35: once the reconciliation has committed, the administrator flag of
\* every stored user is true exactly when the administrator map holds the
\* user's stored username with the value true, in every state: after a
\* row is created and while first messages of one user are handled
\* concurrently.
C35_FlagMatchesAdminSet ==
    tx.pc = "committed"
    => \A u \in DOMAIN users :
        users[u].is_admin =
            (users[u].username \in DOMAIN Admins /\ Admins[users[u].username])

\* C35 witness: a first message of user 101, an administrator, has created
\* the row with the flag set while another first message of the same user
\* is about to write the row again
C35_Witness ==
    /\ \E r \in returned :
            /\ r.msg.from = 101 /\ r.existingUser = {}
            /\ LogSaveUser \notin Range(r.logs)
    /\ 101 \in DOMAIN users /\ users[101].is_admin /\ users[101].phone = ""
    /\ \E p \in Procs :
            /\ procs[p].pc = "save_user" /\ procs[p].msg.from = 101
            /\ procs[p].existingUser = {}

\* C36: when a handleMessage run for a contact message returns with the
\* phone-saved confirmation, the sender's stored phone is not empty after
\* that step, so that the gate of the sender's next message reads an
\* Active user; this also when the phone write failed.
C36_ConfirmedMeansStored ==
    [][\A r \in returned' :
        (/\ r.msg.kind = "contact"
         /\ r.replies # <<>>
         /\ LastReply(r).text = MsgPhoneSaved)
        => /\ r.msg.from \in DOMAIN users'
           /\ users'[r.msg.from].phone # ""
           /\ GateState(GetUser(users', r.msg.from)) = "Active"]_vars

\* the run is a /show <id> or /delete <id> of a stored non-administrator
\* with a phone, and no storage call of it failed
AsksForFile(run, tbl) ==
    /\ run.msg.kind = "command" /\ run.msg.command \in {"show", "delete"}
    /\ run.msg.args # "" /\ ParseId(run.msg.args).ok
    /\ run.logs = <<>>
    /\ run.msg.from \in DOMAIN tbl
    /\ ~tbl[run.msg.from].is_admin /\ tbl[run.msg.from].phone # ""

\* the run is an upload of a stored non-administrator that was answered
\* with the success reply
ReportsUpload(run, tbl) ==
    /\ run.msg.kind \in MediaKinds
    /\ run.replies # <<>> /\ LastReply(run).text = MsgSaved
    /\ run.msg.from \in DOMAIN tbl /\ ~tbl[run.msg.from].is_admin

\* what /show <id> and /delete <id> answer when the lookup of the id gives
\* `found` and the sender may use what was found
Answer(run, found) ==
    IF found = {}
    THEN IF run.msg.command = "show" THEN <<Reply(MsgWait), Reply(MsgNotFound)>>
         ELSE <<Reply(MsgNotFound)>>
    ELSE IF run.msg.command = "show" THEN <<Reply(MsgWait), SendFile(TheOne(found))>>
         ELSE <<DeletePrompt(ParseId(run.msg.args).id)>>

\* C37 (as claimed; serialized handling): what a non-administrator is
\* answered does not depend on the files of other users: the replies to
\* /show <id> and /delete <id> are the ones the same store without the
\* files of other users gives, and the id reported for an upload is the one
\* that store gives.
C37_NonInterference ==
    [][\A r \in returned' :
        LET from == r.msg.from
            own == GetUserFiles(files, from)
        IN  /\ AsksForFile(r, users)
                => r.replies = Answer(r, GetFile(own, ParseId(r.msg.args).id))
            /\ ReportsUpload(r, users)
                => LastReply(r).id = NextFileId(LastFileId(own))]_vars

\* C37 (amended; serialized handling): what a non-administrator is answered
\* depends on the files of other users in two points only.  /show <id> and
\* /delete <id> answer with the permission-denied notice, and nothing of
\* the file, when a file of another user has the id, and otherwise as the
\* store without the files of other users does.  The id reported for an
\* upload is one more than the greatest id stored, whoever owns it.
C37_BoundedInterference ==
    [][\A r \in returned' :
        LET from == r.msg.from
            own == GetUserFiles(files, from)
        IN  /\ AsksForFile(r, users)
                => LET id == ParseId(r.msg.args).id
                   IN  IF GetFile(files, id) # {} /\ GetFile(own, id) = {}
                       THEN r.replies =
                                IF r.msg.command = "show"
                                THEN <<Reply(MsgWait), Reply(MsgShowDenied)>>
                                ELSE <<Reply(MsgDeleteDenied)>>
                       ELSE r.replies = Answer(r, GetFile(own, id))
            /\ ReportsUpload(r, users)
                => LastReply(r).id = NextFileId(LastFileId(files))]_vars

\* C37 witness: user 102, not an administrator, asked to delete file 1 of
\* user 101 and was refused; the store also holds a file of user 102
C37_Witness ==
    \E r \in returned :
        /\ r.msg.from = 102 /\ r.msg.command = "delete"
        /\ r.replies = <<Reply(MsgDeleteDenied)>>
        /\ \E f \in files : f.id = 1 /\ f.user_id = 101
        /\ \E f \in files : f.user_id = 102

\* the name and type of a voice message, of a photo without a caption and
\* of a video note
DefaultKey(f) ==
    \/ f.file_name = "voice.ogg" /\ f.file_type = "audio/ogg"
    \/ f.file_name = "photo.jpg" /\ f.file_type = "image/jpeg"
    \/ f.file_name = "video_note.mp4" /\ f.file_type = "video/mp4"

\* C38: at any time an owner has at most one stored file named and typed
\* voice.ogg / audio/ogg, photo.jpg / image/jpeg or video_note.mp4 /
\* video/mp4; while one is stored, a further upload of that owner with the
\* same name and type ends in SaveFile's duplicate query without storing
\* anything, whatever its bytes; when none is stored, the duplicate query
\* lets the upload through.
C38_OnePerDefaultKey ==
    [][/\ \A f, g \in files' : (DefaultKey(f) /\ SameKey(f, g)) => f = g
       /\ \A p \in Procs : \A f \in procs[p].dbFile :
            (At(p, "save_dedup") /\ StepOf(p) /\ DefaultKey(f))
            => /\ files' = files
               /\ (\E g \in files : SameKey(f, g))
                    => /\ returned' # {}
                       /\ \A r \in returned' :
                            LastReply(r).text \in {MsgDuplicate, MsgSaveError}
               /\ (\A g \in files : ~SameKey(f, g))
                    => \A r \in returned' : LastReply(r).text = MsgSaveError]_vars

====
